---- MODULE Spec2Model ----
(***************************************************************************)
(* Model of @batterii/yeoman-helpers:                                      *)
(*   - OptionPrompt (option-prompt.js) and Generator.optionPrompt /        *)
(*     Generator.prompting (lib/generator.js): the option/prompt hybrids;  *)
(*   - Generator.extendJson / extendPackage / extendTsConfig / addScripts  *)
(*     / sortScripts and their lodash customizers: the JSON helpers.       *)
(* Two specifications share the variables: Spec runs one generator from    *)
(* construction through prompting(); FileSpec runs the JSON helpers on a   *)
(* destination directory.                                                  *)
(***************************************************************************)
EXTENDS Integers, Sequences, FiniteSets, TLC

VARIABLES
    phase,          \* "constructing" | "prompting" | "done" | "failed"
    optionPrompts,  \* Generator._optionPrompts: sequence of descriptors
    hostOptions,    \* flags registered with the host through this.option()
    options,        \* generator.options: option name -> value
    status,         \* per registered descriptor: position of its resolve()
    lastReg,        \* outcome of the last optionPrompt() call
    cur,            \* what the resolve() last started has done so far
    errorMsg,       \* message handed to env.error, or Undef
    fs,             \* destination directory: path -> JSON document or Missing
    lastOp          \* the last JSON helper call and the documents before it

vars == <<phase, optionPrompts, hostOptions, options, status, lastReg, cur,
          errorMsg, fs, lastOp>>

promptVars == <<phase, optionPrompts, hostOptions, options, status, lastReg,
                cur, errorMsg>>

fileVars == <<fs, lastOp>>

----------------------------------------------------------------------------
(* JavaScript values *)

Undef == [t |-> "undef"]
Null == [t |-> "null"]
Bool(b) == [t |-> "bool", b |-> b]
Num(n) == [t |-> "num", n |-> n]
Str(s) == [t |-> "str", s |-> s]
\* a function value (only ever met as an inherited Object.prototype member)
Fn(f) == [t |-> "fn", f |-> f]
\* an array: its elements, and any non-index properties set on it
Arr(a) == [t |-> "arr", a |-> a, p |-> <<>>]
\* an object: its own enumerable properties in insertion order
Obj(kv) == [t |-> "obj", kv |-> kv]

\* lodash isString / isArray / isFunction / isObject / isPlainObject
isString(v) == v.t = "str"
isArray(v) == v.t = "arr"
isFunction(v) == v.t = "fn"
isObject(v) == v.t \in {"arr", "obj", "fn"}
isPlainObject(v) == v.t = "obj"

\* JavaScript truthiness, as tested by `!result` and `!optionType`
Truthy(v) ==
    CASE v.t = "undef" -> FALSE
      [] v.t = "null" -> FALSE
      [] v.t = "bool" -> v.b
      [] v.t = "num" -> v.n # 0
      [] v.t = "str" -> v.s # ""
      [] OTHER -> TRUE

\* decimal digits of a natural number
RECURSIVE Digits(_)
Digits(n) ==
    LET d == <<"0", "1", "2", "3", "4", "5", "6", "7", "8", "9">>
    IN IF n < 10 THEN d[n + 1] ELSE Digits(n \div 10) \o d[(n % 10) + 1]

\* String(v), as applied by a template literal `${v}`
ToStr(v) ==
    CASE v.t = "undef" -> "undefined"
      [] v.t = "null" -> "null"
      [] v.t = "bool" -> IF v.b THEN "true" ELSE "false"
      [] v.t = "num" -> IF v.n < 0 THEN "-" \o Digits(0 - v.n) ELSE Digits(v.n)
      [] v.t = "str" -> v.s
      [] v.t = "obj" -> "[object Object]"
      [] OTHER -> "?"

----------------------------------------------------------------------------
(* Bounds and input sets of the option/prompt model *)

MaxPrompts == 2

Names == {"a", "b"}

\* prompt types a generator author may write in config.type
PromptTypes == {"input", "confirm", "list", "constructor"}

\* names every plain object inherits from Object.prototype
ObjectPrototypeKeys == {"constructor", "toString", "valueOf", "hasOwnProperty"}

\* values a command line flag or composeWith may have put in the bag
CliValues == {Undef, Bool(FALSE)}

\* config.whenProhibited
FallbackValues == {Undef, Str("none")}

\* what a user may answer to a question of the given type
Answers(type) ==
    IF type = "confirm" THEN {Bool(TRUE), Bool(FALSE)} ELSE {Str("x"), Str("")}

\* what a caller-supplied config.validate may return
ValidateResults ==
    {Bool(TRUE), Bool(FALSE), Str("bad"), Str(""), Num(1)}

\* the config objects handed to optionPrompt(): name, type, whether
\* config.allowed / config.validate are functions, and config.whenProhibited
Configs ==
    { c \in [name : Names, type : PromptTypes, hasAllowed : BOOLEAN,
             whenProhibited : FallbackValues, hasValidate : BOOLEAN] :
        ~c.hasAllowed => c.whenProhibited = Undef }

Missing == [t |-> "missing"]

Paths == {"package.json", "tsconfig.json", "data.json"}

NoOp == [op |-> "none", n |-> 0]

NoReg == [called |-> FALSE]
NoCur == [idx |-> 0]

----------------------------------------------------------------------------
(* prompt-type-map.js and OptionPrompt *)

\* typeMap[type]: the own keys of the map, then what the object literal
\* inherits from Object.prototype, else undefined
typeMap(type) ==
    CASE type = "confirm" -> Fn("Boolean")
      [] type = "input" -> Fn("String")
      [] type \in ObjectPrototypeKeys -> Fn("Object.prototype." \o type)
      [] OTHER -> Undef

\* OptionPrompt.optionType: [throws, error] or [throws, value]
optionType(config) ==
    LET ot == typeMap(config.type)
    IN IF ~Truthy(ot)
       THEN [throws |-> TRUE,
             error |-> "Unsupported prompt type '" \o config.type \o "'"]
       ELSE [throws |-> FALSE, value |-> ot]

\* OptionPrompt.optionConfig: the getter throws when optionType does
optionConfig(config) ==
    LET ot == optionType(config)
    IN IF ot.throws THEN ot ELSE [throws |-> FALSE, value |-> [type |-> ot.value]]

\* mutant: "missing" tested by falsiness instead of `=== undefined`
isMissingFalsy(opts, config) == ~Truthy(opts[config.name])

\* OptionPrompt.isMissing, and the `when` of OptionPrompt.question
isMissing(opts, config) == opts[config.name] = Undef

\* mutant: the fallback fills in only an option the command line left out
assignProhibitedIfMissing(opts, config) ==
    IF opts[config.name] = Undef
    THEN [opts EXCEPT ![config.name] = config.whenProhibited]
    ELSE opts

\* the else branch of OptionPrompt.prompt: options[name] = whenProhibited
assignProhibited(opts, config) ==
    [opts EXCEPT ![config.name] = config.whenProhibited]

\* results the getter OptionPrompt.isAllowed can give: true when
\* config.allowed is no function, else whatever the predicate returns
isAllowedResults(config) == IF config.hasAllowed THEN BOOLEAN ELSE {TRUE}

\* the prompt types the host's prompt module can show
HostPromptTypes == {"input", "confirm", "list"}

\* mutant: only a result of exactly `false` gets the default message
validateMessageStrictFalse(name, input, result) ==
    LET r == IF result = Bool(FALSE)
             THEN Str("Invalid " \o name \o " option '" \o ToStr(input) \o "'")
             ELSE result
    IN IF isString(r) /\ r # Str("") THEN r ELSE Undef

\* OptionPrompt.validate, from the validator's result to the message
\* handed to env.error (Undef when env.error is not called)
validateMessage(name, input, result) ==
    LET r == IF ~Truthy(result)
             THEN Str("Invalid " \o name \o " option '" \o ToStr(input) \o "'")
             ELSE result
    IN IF isString(r) THEN r ELSE Undef

\* mutant: the error is recorded but the run is not ended
envErrorRecordOnly(message) ==
    /\ errorMsg' = message
    /\ phase' = phase

\* env.error(message): the host ends the run
envError(message) ==
    /\ errorMsg' = message
    /\ phase' = "failed"

\* mutant: every resolve() is started without awaiting the one before
canStartUnawaited(i) == status[i] = "pending"

\* Generator.prompting: the for..of loop awaits each resolve() before it
\* starts the next, so descriptor i starts once all before it are done
canStart(i) ==
    /\ status[i] = "pending"
    /\ \A j \in 1..(i - 1) : status[j] = "done"

----------------------------------------------------------------------------
(* Generator: registration and prompting *)

\* Generator.optionPrompt(config)
optionPrompt(config) ==
    /\ phase = "constructing"
    /\ Len(optionPrompts) < MaxPrompts
    /\ LET oc == optionConfig(config)
       IN IF oc.throws
          THEN \* the getter throws before this.option() is entered
               /\ lastReg' = [called |-> TRUE, type |-> config.type,
                              threw |-> TRUE, error |-> oc.error,
                              flagged |-> FALSE, pushed |-> FALSE,
                              kind |-> Undef]
               /\ UNCHANGED <<hostOptions, optionPrompts, status>>
          ELSE /\ hostOptions' = [hostOptions EXCEPT ![config.name] = oc.value.type]
               /\ optionPrompts' = Append(optionPrompts, config)
               /\ status' = Append(status, "pending")
               /\ lastReg' = [called |-> TRUE, type |-> config.type,
                              threw |-> FALSE, error |-> "",
                              flagged |-> TRUE, pushed |-> TRUE,
                              kind |-> oc.value.type]
    /\ UNCHANGED <<phase, options, cur, errorMsg, fs, lastOp>>

\* the host's run loop calls prompting()
Run ==
    /\ phase = "constructing"
    /\ phase' = "prompting"
    /\ UNCHANGED <<optionPrompts, hostOptions, options, status, lastReg, cur,
                   errorMsg, fs, lastOp>>

\* OptionPrompt.resolve up to the first suspension of OptionPrompt.prompt:
\* isAllowed, then either generator.prompt([question]) or the fallback
prompt(i) ==
    /\ phase = "prompting"
    /\ i \in 1..Len(optionPrompts)
    /\ canStart(i)
    /\ LET config == optionPrompts[i]
           name == config.name
       IN \E allowed \in isAllowedResults(config) :
            LET c == [idx |-> i, before |-> options[name], allowed |-> allowed,
                      asked |-> FALSE, answered |-> FALSE, validated |-> FALSE,
                      input |-> Undef, result |-> Undef]
            IN IF allowed
               THEN IF isMissing(options, config)
                    THEN IF config.type \in HostPromptTypes
                         THEN /\ status' = [status EXCEPT ![i] = "asking"]
                              /\ cur' = [c EXCEPT !.asked = TRUE]
                              /\ UNCHANGED <<options, phase, errorMsg>>
                         ELSE \* the host has no such prompt: prompt() rejects
                              /\ status' = [status EXCEPT ![i] = "asking"]
                              /\ cur' = [c EXCEPT !.asked = TRUE]
                              /\ phase' = "failed"
                              /\ UNCHANGED <<options, errorMsg>>
                    ELSE \* `when` is false: the answers are {}
                         /\ status' = [status EXCEPT ![i] = "prompted"]
                         /\ cur' = c
                         /\ UNCHANGED <<options, phase, errorMsg>>
               ELSE /\ options' = assignProhibited(options, config)
                    /\ status' = [status EXCEPT ![i] = "prompted"]
                    /\ cur' = c
                    /\ UNCHANGED <<phase, errorMsg>>
    /\ UNCHANGED <<optionPrompts, hostOptions, lastReg, fs, lastOp>>

\* the user answers the outstanding question; assign(options, answers).
\* The host may hold an answer back until question.validate accepts it; every
\* answer is let through here, which covers the prompts that do not.
answer(i) ==
    /\ phase = "prompting"
    /\ i \in 1..Len(optionPrompts)
    /\ status[i] = "asking"
    /\ \E a \in Answers(optionPrompts[i].type) :
         /\ options' = [options EXCEPT ![optionPrompts[i].name] = a]
         /\ cur' = [cur EXCEPT !.answered = TRUE]
    /\ status' = [status EXCEPT ![i] = "prompted"]
    /\ UNCHANGED <<phase, optionPrompts, hostOptions, lastReg, errorMsg, fs,
                   lastOp>>

\* OptionPrompt.validate
validate(i) ==
    /\ phase = "prompting"
    /\ i \in 1..Len(optionPrompts)
    /\ status[i] = "prompted"
    /\ LET config == optionPrompts[i]
           input == options[config.name]
       IN IF config.hasValidate
          THEN \E result \in ValidateResults :
                 LET msg == validateMessage(config.name, input, result)
                 IN /\ cur' = [cur EXCEPT !.validated = TRUE, !.input = input,
                                          !.result = result]
                    /\ IF msg # Undef
                       THEN /\ envError(msg)
                            /\ status' = [status EXCEPT ![i] = "rejected"]
                       ELSE /\ status' = [status EXCEPT ![i] = "done"]
                            /\ UNCHANGED <<phase, errorMsg>>
          ELSE /\ status' = [status EXCEPT ![i] = "done"]
               /\ UNCHANGED <<cur, phase, errorMsg>>
    /\ UNCHANGED <<optionPrompts, hostOptions, options, lastReg, fs, lastOp>>

\* Generator.prompting returns once the loop has run out
prompting ==
    /\ phase = "prompting"
    /\ \A i \in 1..Len(optionPrompts) : status[i] = "done"
    /\ phase' = "done"
    /\ UNCHANGED <<optionPrompts, hostOptions, options, status, lastReg, cur,
                   errorMsg, fs, lastOp>>

Init ==
    /\ phase = "constructing"
    /\ optionPrompts = <<>>
    /\ hostOptions = [n \in Names |-> Undef]
    /\ options \in [Names -> CliValues]
    /\ status = <<>>
    /\ lastReg = NoReg
    /\ cur = NoCur
    /\ errorMsg = Undef
    /\ fs = [p \in Paths |-> Missing]
    /\ lastOp = NoOp

Next ==
    \/ \E config \in Configs : optionPrompt(config)
    \/ Run
    \/ \E i \in 1..MaxPrompts : prompt(i)
    \/ \E i \in 1..MaxPrompts : answer(i)
    \/ \E i \in 1..MaxPrompts : validate(i)
    \/ prompting

Spec == Init /\ [][Next]_vars

----------------------------------------------------------------------------
(* JSON documents, and lodash mergeWith as the generator calls it *)

\* own properties of an object, kept as a sequence of [k, v] in insertion order
hasOwn(kv, k) == \E i \in 1..Len(kv) : kv[i].k = k
ownIndex(kv, k) == CHOOSE i \in 1..Len(kv) : kv[i].k = k
kvSet(kv, k, v) ==
    IF hasOwn(kv, k)
    THEN [kv EXCEPT ![ownIndex(kv, k)] = [k |-> k, v |-> v]]
    ELSE Append(kv, [k |-> k, v |-> v])
kvDelete(kv, k) == SelectSeq(kv, LAMBDA e : e.k # k)

\* the named properties a value carries itself
named(o) == IF o.t = "obj" THEN o.kv ELSE IF o.t = "arr" THEN o.p ELSE <<>>

\* `key in o`: own properties, then those inherited from Object.prototype
hasIn(o, key) == hasOwn(named(o), key) \/ key \in ObjectPrototypeKeys

\* o[key] for a property name
getNamed(o, key) ==
    IF hasOwn(named(o), key) THEN named(o)[ownIndex(named(o), key)].v
    ELSE IF key \in ObjectPrototypeKeys THEN Fn("Object.prototype." \o key)
    ELSE Undef

\* o[key] = v for a property name
setNamed(o, key, v) ==
    IF o.t = "arr" THEN [o EXCEPT !.p = kvSet(o.p, key, v)]
    ELSE [o EXCEPT !.kv = kvSet(o.kv, key, v)]

\* arr[i] and arr[i] = v (elements are numbered from 1 here)
getIndexed(arr, i) == IF i \in 1..Len(arr.a) THEN arr.a[i] ELSE Undef
setIndexed(arr, i, v) ==
    IF i \in 1..Len(arr.a) THEN [arr EXCEPT !.a[i] = v]
    ELSE [arr EXCEPT !.a = Append(arr.a, v)]

\* mutant: the incoming array goes in front of the existing one
concatArraysReversed(obj, src) ==
    IF isArray(obj) /\ isArray(src) THEN Arr(src.a \o obj.a) ELSE Undef

\* concatArrays(obj, src)
concatArrays(obj, src) ==
    IF isArray(obj) /\ isArray(src) THEN Arr(obj.a \o src.a) ELSE Undef

\* appendScripts(obj, src)
appendScripts(obj, src) ==
    IF isString(obj) /\ isString(src) THEN Str(obj.s \o " && " \o src.s)
    ELSE Undef

\* prependScripts(obj, src)
prependScripts(obj, src) ==
    IF isString(obj) /\ isString(src) THEN Str(src.s \o " && " \o obj.s)
    ELSE Undef

\* the customizer passed to mergeWith, by name
customize(c, obj, src) ==
    CASE c = "concatArrays" -> concatArrays(obj, src)
      [] c = "appendScripts" -> appendScripts(obj, src)
      [] c = "prependScripts" -> prependScripts(obj, src)

\* lodash assignMergeValue: undefined is assigned only to a key not yet there
assignNamed(object, key, value) ==
    IF value # Undef \/ ~hasIn(object, key)
    THEN setNamed(object, key, value)
    ELSE object

assignIndexed(object, i, value) ==
    IF value # Undef \/ i > Len(object.a)
    THEN setIndexed(object, i, value)
    ELSE object

RECURSIVE baseMerge(_, _, _)
RECURSIVE mergeNamedFrom(_, _, _, _)
RECURSIVE mergeIndexedFrom(_, _, _, _)

\* lodash baseMergeDeep, up to the assignment: the value to assign for a
\* source value that is an array or a plain object
mergeDeepValue(objValue, srcValue, c) ==
    LET custom == customize(c, objValue, srcValue)
    IN IF custom # Undef THEN custom
       ELSE IF isArray(srcValue)
            THEN baseMerge(IF isArray(objValue) THEN objValue ELSE Arr(<<>>),
                           srcValue, c)
            ELSE baseMerge(IF ~isObject(objValue) \/ isFunction(objValue)
                           THEN Obj(<<>>) ELSE objValue,
                           srcValue, c)

\* lodash baseMerge, one source property: deep for objects, else the
\* customizer's value or the source value
mergeValue(objValue, srcValue, c) ==
    IF isObject(srcValue) THEN mergeDeepValue(objValue, srcValue, c)
    ELSE LET custom == customize(c, objValue, srcValue)
         IN IF custom # Undef THEN custom ELSE srcValue

\* the named properties of source from the i-th on, merged into object
mergeNamedFrom(object, source, c, i) ==
    IF i > Len(source.kv) THEN object
    ELSE LET key == source.kv[i].k
             value == mergeValue(getNamed(object, key), source.kv[i].v, c)
         IN mergeNamedFrom(assignNamed(object, key, value), source, c, i + 1)

\* the elements of source from the i-th on, merged into the array object
mergeIndexedFrom(object, source, c, i) ==
    IF i > Len(source.a) THEN object
    ELSE LET value == mergeValue(getIndexed(object, i), source.a[i], c)
         IN mergeIndexedFrom(assignIndexed(object, i, value), source, c, i + 1)

\* lodash baseMerge(object, source, customizer)
baseMerge(object, source, c) ==
    IF isArray(source) THEN mergeIndexedFrom(object, source, c, 1)
    ELSE mergeNamedFrom(object, source, c, 1)

\* lodash mergeWith(object, source, customizer)
mergeWith(object, source, c) == baseMerge(object, source, c)

RECURSIVE stringify(_)
RECURSIVE stringifyProps(_, _)
RECURSIVE stringifyElems(_, _)

\* the properties JSON.stringify writes: none that is undefined or a function
stringifyProps(kv, i) ==
    IF i > Len(kv) THEN <<>>
    ELSE IF kv[i].v.t \in {"undef", "fn"} THEN stringifyProps(kv, i + 1)
    ELSE <<[k |-> kv[i].k, v |-> stringify(kv[i].v)]>> \o stringifyProps(kv, i + 1)

\* the elements JSON.stringify writes: null for undefined or a function
stringifyElems(a, i) ==
    IF i > Len(a) THEN <<>>
    ELSE <<IF a[i].t \in {"undef", "fn"} THEN Null ELSE stringify(a[i])>>
         \o stringifyElems(a, i + 1)

\* fs.writeJSON followed by a later fs.readJSON: what JSON keeps of a value
\* (an array loses its named properties)
stringify(v) ==
    CASE v.t = "obj" -> Obj(stringifyProps(v.kv, 1))
      [] v.t = "arr" -> Arr(stringifyElems(v.a, 1))
      [] OTHER -> v

\* fs.readJSON(filePath, {})
readJSON(files, path) == IF files[path] = Missing THEN Obj(<<>>) ELSE files[path]

\* fs.writeJSON(filePath, obj, null, '\t')
writeJSON(files, path, obj) == [files EXCEPT ![path] = stringify(obj)]

----------------------------------------------------------------------------
(* Generator: the JSON helpers *)

\* mutant: readJSON without its {} default, so a missing file is never written
extendJsonExistingOnly(files, path, contents, c) ==
    IF files[path] = Missing THEN files
    ELSE writeJSON(files, path, mergeWith(files[path], contents, c))

\* Generator.extendJson(destinationPath, contents, customizer)
extendJson(files, path, contents, c) ==
    writeJSON(files, path, mergeWith(readJSON(files, path), contents, c))

\* Generator.extendTsConfig(contents, customizer)
extendTsConfig(files, contents, c) == extendJson(files, "tsconfig.json", contents, c)

\* Generator.extendPackage(contents, customizer)
extendPackage(files, contents, c) == extendJson(files, "package.json", contents, c)

\* mutant: the two customizers swapped
scriptsCustomizerSwapped(prepend) ==
    IF prepend THEN "appendScripts" ELSE "prependScripts"

\* Generator.addScripts of lib/generator.js: the customizer it picks
scriptsCustomizer(prepend) ==
    IF prepend THEN "prependScripts" ELSE "appendScripts"

\* Generator.addScripts(scripts, prepend) of lib/generator.js
addScripts(files, scripts, prepend) ==
    extendPackage(files, Obj(<<[k |-> "scripts", v |-> scripts]>>),
                  scriptsCustomizer(prepend))

\* Generator.addScripts of the second implementation: the customizer it picks
secondScriptsCustomizer(prepend) ==
    IF prepend THEN "appendScripts" ELSE "prependScripts"

\* Generator.addScripts(scripts, prepend) of the second implementation
secondAddScripts(files, scripts, prepend) ==
    extendPackage(files, Obj(<<[k |-> "scripts", v |-> scripts]>>),
                  secondScriptsCustomizer(prepend))

\* mutant: the named scripts are put after the others
assignSortedLast(sorted, scripts) == Obj(scripts.kv \o sorted.kv)

RECURSIVE assignFrom(_, _, _)
assignFrom(target, kv, i) ==
    IF i > Len(kv) THEN target
    ELSE assignFrom(setNamed(target, kv[i].k, kv[i].v), kv, i + 1)

\* lodash assign(sorted, scripts): the own properties of scripts, in their
\* order, set on sorted
assign(sorted, scripts) == assignFrom(sorted, named(scripts), 1)

\* the for..of loop of Generator.sortScripts, from the i-th name on
RECURSIVE sortLoop(_, _, _, _)
sortLoop(sorted, scripts, names, i) ==
    IF i > Len(names) THEN [sorted |-> sorted, scripts |-> scripts]
    ELSE IF hasIn(scripts, names[i])
         THEN sortLoop(setNamed(sorted, names[i], getNamed(scripts, names[i])),
                       [scripts EXCEPT !.kv = kvDelete(scripts.kv, names[i])],
                       names, i + 1)
         ELSE sortLoop(sorted, scripts, names, i + 1)

\* Generator.sortScripts(names): [threw, files]. `name in scripts` throws a
\* TypeError when the manifest has no scripts object.
sortScripts(files, names) ==
    LET pkg == readJSON(files, "package.json")
        scripts == getNamed(pkg, "scripts")
    IN IF ~isPlainObject(scripts)
       THEN IF names # <<>>
            THEN [threw |-> TRUE, files |-> files]
            ELSE [threw |-> FALSE,
                  files |-> writeJSON(files, "package.json",
                                      setNamed(pkg, "scripts", Obj(<<>>)))]
       ELSE LET r == sortLoop(Obj(<<>>), scripts, names, 1)
            IN [threw |-> FALSE,
                files |-> writeJSON(files, "package.json",
                             setNamed(pkg, "scripts", assign(r.sorted, r.scripts)))]

----------------------------------------------------------------------------
(* Bounds and input sets of the JSON helpers *)

MaxOps == 2

P(k, v) == [k |-> k, v |-> v]

\* values met below the top level of a document
JsonValues ==
    { Num(1), Null, Arr(<<>>), Arr(<<Num(1), Num(2)>>), Arr(<<Num(3), Num(4)>>),
      Obj(<<>>), Obj(<<P("x", Num(1))>>), Obj(<<P("y", Num(2))>>),
      Obj(<<P("x", Arr(<<Num(1)>>))>>),
      Obj(<<P("y", Num(5)), P("x", Arr(<<Num(2)>>))>>) }

\* the `contents` argument of extendJson and its variants
Contents ==
    { Obj(<<P("a", v)>>) : v \in JsonValues }
    \cup { Obj(<<P("b", Num(1))>>), Obj(<<P("b", Num(2)), P("a", Num(1))>>) }

\* the `scripts` argument of addScripts
ScriptArgs ==
    { Obj(<<P(n, Str(cmd))>>) : n \in {"build", "test", "toString"},
                                cmd \in {"tsc", ""} }
    \cup { Obj(<<P("test", Str("mocha")), P("build", Str("tsc"))>>),
           Obj(<<P("build", Str("tsc")), P("lint", Str("eslint"))>>) }

\* the `names` argument of sortScripts
SortNames == {"test", "build", "toString"}
NameLists ==
    {<<>>} \cup { <<n>> : n \in SortNames }
           \cup { <<n, m>> : n \in SortNames, m \in SortNames }

\* package manifests found in the destination before the generator runs
InitPackages ==
    { Obj(<<P("name", Str("pkg")),
            P("scripts", Obj(<<P("lint", Str("x")), P("build", Str("y")),
                               P("test", Str("z"))>>)),
            P("version", Str("1.0.0"))>>),
      Obj(<<P("scripts", Obj(<<P("toString", Str("x")),
                               P("build", Str("lint"))>>))>>) }

----------------------------------------------------------------------------
(* The JSON helpers as operations on the destination directory *)

ExtendJson ==
    /\ lastOp.n < MaxOps
    /\ \E contents \in Contents :
         /\ fs' = extendJson(fs, "data.json", contents, "concatArrays")
         /\ lastOp' = [op |-> "extendJson", n |-> lastOp.n + 1,
                       path |-> "data.json", before |-> fs,
                       contents |-> contents]
    /\ UNCHANGED promptVars

ExtendPackage ==
    /\ lastOp.n < MaxOps
    /\ \E contents \in Contents :
         /\ fs' = extendPackage(fs, contents, "concatArrays")
         /\ lastOp' = [op |-> "extendPackage", n |-> lastOp.n + 1,
                       path |-> "package.json", before |-> fs,
                       contents |-> contents]
    /\ UNCHANGED promptVars

ExtendTsConfig ==
    /\ lastOp.n < MaxOps
    /\ \E contents \in Contents :
         /\ fs' = extendTsConfig(fs, contents, "concatArrays")
         /\ lastOp' = [op |-> "extendTsConfig", n |-> lastOp.n + 1,
                       path |-> "tsconfig.json", before |-> fs,
                       contents |-> contents]
    /\ UNCHANGED promptVars

AddScripts ==
    /\ lastOp.n < MaxOps
    /\ \E scripts \in ScriptArgs, prepend \in BOOLEAN :
         /\ fs' = addScripts(fs, scripts, prepend)
         /\ lastOp' = [op |-> "addScripts", n |-> lastOp.n + 1,
                       path |-> "package.json", before |-> fs,
                       scripts |-> scripts, prepend |-> prepend]
    /\ UNCHANGED promptVars

SecondAddScripts ==
    /\ lastOp.n < MaxOps
    /\ \E scripts \in ScriptArgs, prepend \in BOOLEAN :
         /\ fs' = secondAddScripts(fs, scripts, prepend)
         /\ lastOp' = [op |-> "secondAddScripts", n |-> lastOp.n + 1,
                       path |-> "package.json", before |-> fs,
                       scripts |-> scripts, prepend |-> prepend]
    /\ UNCHANGED promptVars

SortScripts ==
    /\ lastOp.n < MaxOps
    /\ \E names \in NameLists :
         LET r == sortScripts(fs, names)
         IN /\ fs' = r.files
            /\ lastOp' = [op |-> "sortScripts", n |-> lastOp.n + 1,
                          path |-> "package.json", before |-> fs,
                          names |-> names, threw |-> r.threw]
    /\ UNCHANGED promptVars

FileInit ==
    /\ phase = "constructing"
    /\ optionPrompts = <<>>
    /\ hostOptions = [n \in Names |-> Undef]
    /\ options = [n \in Names |-> Undef]
    /\ status = <<>>
    /\ lastReg = NoReg
    /\ cur = NoCur
    /\ errorMsg = Undef
    /\ \E pkg \in InitPackages \cup {Missing} :
         fs = [p \in Paths |-> IF p = "package.json" THEN pkg ELSE Missing]
    /\ lastOp = NoOp

FileNext ==
    \/ ExtendJson
    \/ ExtendPackage
    \/ ExtendTsConfig
    \/ AddScripts
    \/ SecondAddScripts
    \/ SortScripts

FileSpec == FileInit /\ [][FileNext]_vars

----------------------------------------------------------------------------
(* Properties of the option/prompt hybrids, checked under Spec *)

Started == cur.idx # 0
CurConfig == optionPrompts[cur.idx]
CurName == CurConfig.name

\* C1: prompting() resolves the descriptors in registration order, one at a
\* time: a descriptor has left "pending" only when every descriptor
\* registered before it has finished prompt, assignment and validation, and
\* at most one question is outstanding.
C1_RegistrationOrder ==
    /\ \A i, j \in 1..Len(status) :
          (i < j /\ status[j] # "pending") => status[i] = "done"
    /\ Cardinality({i \in 1..Len(status) : status[i] = "asking"}) <= 1

C1_Witness ==
    /\ Len(optionPrompts) = 2
    /\ optionPrompts[1].name # optionPrompts[2].name
    /\ status = <<"done", "asking">>

\* C2: when the descriptor is allowed (no predicate, or it returned true) and
\* the option was already present, no question is asked and the option keeps
\* the value it had before resolution.
C2_PresentKept ==
    (Started /\ cur.allowed /\ cur.before # Undef) =>
        (~cur.asked /\ options[CurName] = cur.before)

C2_Witness ==
    /\ Started /\ cur.allowed /\ cur.before = Bool(FALSE)
    /\ CurConfig.hasAllowed
    /\ status[cur.idx] = "done"

\* C3: when the allowed predicate returned false, the option equals
\* whenProhibited after the prompt step, whatever the flag had put in the
\* bag, and no question is asked.
C3_ProhibitedFallback ==
    (Started /\ ~cur.allowed) =>
        (~cur.asked /\ options[CurName] = CurConfig.whenProhibited)

C3_Witness ==
    /\ Started /\ ~cur.allowed
    /\ cur.before = Bool(FALSE)
    /\ CurConfig.whenProhibited = Str("none")
    /\ status[cur.idx] \in {"prompted", "done"}

\* how the default message shows each value an option can hold
Shown(v) ==
    CASE v = Undef -> "undefined"
      [] v = Bool(TRUE) -> "true"
      [] v = Bool(FALSE) -> "false"
      [] v = Str("x") -> "x"
      [] v = Str("") -> ""
      [] v = Str("none") -> "none"

DefaultMessage == Str("Invalid " \o CurName \o " option '" \o Shown(cur.input) \o "'")

ValidatorApplied ==
    /\ (Started /\ status[cur.idx] \in {"done", "rejected"}
            /\ CurConfig.hasValidate) => cur.validated
    /\ (Started /\ cur.validated) => cur.input = options[CurName]

\* C4 as stated: every string result, the empty string included, is the
\* error message.
C4_AnyStringIsMessage ==
    /\ ValidatorApplied
    /\ (Started /\ cur.validated) =>
          /\ (cur.result = Bool(FALSE)) => errorMsg = DefaultMessage
          /\ isString(cur.result) => errorMsg = cur.result
          /\ (Truthy(cur.result) /\ ~isString(cur.result)) => errorMsg = Undef

\* C4 (amended): the validator is applied to the final value, from a flag or
\* from an answer; a non-empty string result is the error message; false and
\* the empty string give "Invalid <name> option '<value>'"; a truthy
\* non-string result reports no error.
C4_ValidationMessage ==
    /\ ValidatorApplied
    /\ (Started /\ cur.validated) =>
          /\ (cur.result = Bool(FALSE)) => errorMsg = DefaultMessage
          /\ (isString(cur.result) /\ cur.result # Str("")) =>
                (errorMsg = cur.result /\ phase = "failed")
          /\ (cur.result = Str("")) => errorMsg = DefaultMessage
          /\ (Truthy(cur.result) /\ ~isString(cur.result)) => errorMsg = Undef

C4_Witness ==
    /\ Started /\ cur.validated
    /\ cur.result = Str("")
    /\ ~cur.asked /\ cur.input = Bool(FALSE)
    /\ errorMsg = Str("Invalid a option 'false'")

\* C5: once a validator has reported an error, prompting() has failed: no
\* descriptor registered after the failing one has left "pending" (none was
\* prompted for, assigned or validated) and prompting() has not completed.
C5_ValidationFatal ==
    errorMsg # Undef =>
        /\ phase = "failed"
        /\ status[cur.idx] = "rejected"
        /\ \A j \in (cur.idx + 1)..Len(status) : status[j] = "pending"

C5_Witness ==
    /\ errorMsg # Undef
    /\ cur.idx = 1
    /\ Len(optionPrompts) = 2

\* C10: a type other than 'input' or 'confirm' makes optionPrompt() throw
\* "Unsupported prompt type '<type>'" and leaves no flag and no descriptor
\* behind; 'confirm' registers a Boolean flag and 'input' a String flag.
C10_UnsupportedTypeThrows ==
    lastReg.called =>
        /\ lastReg.type \notin {"input", "confirm"} =>
              /\ lastReg.threw
              /\ lastReg.error = "Unsupported prompt type '" \o lastReg.type \o "'"
              /\ ~lastReg.flagged /\ ~lastReg.pushed
        /\ lastReg.type = "confirm" =>
              (lastReg.flagged /\ lastReg.pushed /\ lastReg.kind = Fn("Boolean"))
        /\ lastReg.type = "input" =>
              (lastReg.flagged /\ lastReg.pushed /\ lastReg.kind = Fn("String"))
        /\ \A i \in 1..Len(optionPrompts) :
              optionPrompts[i].type \in {"input", "confirm"}

----------------------------------------------------------------------------
(* Properties of the JSON helpers, checked under FileSpec *)

\* a document without the order of its keys
RECURSIVE Unordered(_)
Unordered(v) ==
    CASE v.t = "obj" ->
           [t |-> "obj",
            m |-> [k \in {v.kv[i].k : i \in 1..Len(v.kv)} |->
                     Unordered(v.kv[ownIndex(v.kv, k)].v)]]
      [] v.t = "arr" ->
           [t |-> "arr", a |-> [i \in 1..Len(v.a) |-> Unordered(v.a[i])]]
      [] OTHER -> v

KeySeq(o) == [i \in 1..Len(o.kv) |-> o.kv[i].k]
KeySet(o) == {o.kv[i].k : i \in 1..Len(o.kv)}
Own(o, k) == o.kv[ownIndex(o.kv, k)].v

\* the document at the path the last call worked on, before and after it
DocBefore == readJSON(lastOp.before, lastOp.path)
DocAfter == fs[lastOp.path]
OthersUntouched ==
    \A p \in Paths \ {lastOp.path} : fs[p] = lastOp.before[p]
DefaultMerge == lastOp.op \in {"extendJson", "extendPackage", "extendTsConfig"}

\* the merge as C6 states it: arrays at the same path concatenated, objects
\* merged key by key, any other incoming value overwriting
RECURSIVE StatedMerge(_, _)
StatedMerge(e, n) ==
    IF isArray(e) /\ isArray(n) THEN Arr(e.a \o n.a)
    ELSE IF isPlainObject(e) /\ isPlainObject(n)
    THEN Obj([i \in 1..Len(e.kv) |->
                 IF hasOwn(n.kv, e.kv[i].k)
                 THEN P(e.kv[i].k, StatedMerge(e.kv[i].v, Own(n, e.kv[i].k)))
                 ELSE e.kv[i]]
             \o SelectSeq(n.kv, LAMBDA x : ~hasOwn(e.kv, x.k)))
    ELSE n

\* the same, except that an incoming object leaves an existing array in place
RECURSIVE ArrayKeepingMerge(_, _)
ArrayKeepingMerge(e, n) ==
    IF isArray(e) /\ isArray(n) THEN Arr(e.a \o n.a)
    ELSE IF isArray(e) /\ isPlainObject(n) THEN e
    ELSE IF isPlainObject(e) /\ isPlainObject(n)
    THEN Obj([i \in 1..Len(e.kv) |->
                 IF hasOwn(n.kv, e.kv[i].k)
                 THEN P(e.kv[i].k, ArrayKeepingMerge(e.kv[i].v, Own(n, e.kv[i].k)))
                 ELSE e.kv[i]]
             \o SelectSeq(n.kv, LAMBDA x : ~hasOwn(e.kv, x.k)))
    ELSE n

\* C6 as stated: with the default customizer the file holds the merge in
\* which every incoming value that is not an array on an array or an object
\* on an object overwrites the existing one.
C6_StatedMerge ==
    DefaultMerge =>
        Unordered(DocAfter) = Unordered(StatedMerge(DocBefore, lastOp.contents))

\* C6 (amended): with the default customizer the file holds the deep merge:
\* arrays at the same path are concatenated existing-then-incoming, objects
\* are merged key by key keeping unmentioned keys, an incoming object on an
\* existing array leaves the array as it was, and any other incoming value
\* overwrites; no other file changes.
C6_DeepMerge ==
    DefaultMerge =>
        /\ Unordered(DocAfter) =
              Unordered(ArrayKeepingMerge(DocBefore, lastOp.contents))
        /\ OthersUntouched

C6_Witness ==
    /\ lastOp.op = "extendJson"
    /\ DocBefore = Obj(<<P("a", Arr(<<Num(3), Num(4)>>))>>)
    /\ lastOp.contents = Obj(<<P("a", Arr(<<Num(1), Num(2)>>))>>)
    /\ DocAfter = Obj(<<P("a", Arr(<<Num(3), Num(4), Num(1), Num(2)>>))>>)

\* the scripts of a manifest ({} when it has none)
ScriptsOf(doc) ==
    IF hasOwn(doc.kv, "scripts") THEN Own(doc, "scripts") ELSE Obj(<<>>)

\* the scripts a call of addScripts must leave, as C7 states them
AddedAsDocumented(old, new, added, prepend) ==
    /\ KeySet(new) = KeySet(old) \cup KeySet(added)
    /\ \A name \in KeySet(added) :
          IF hasOwn(old.kv, name)
          THEN Own(new, name) =
                 IF prepend
                 THEN Str(Own(added, name).s \o " && " \o Own(old, name).s)
                 ELSE Str(Own(old, name).s \o " && " \o Own(added, name).s)
          ELSE Own(new, name) = Own(added, name)
    /\ \A name \in KeySet(old) \ KeySet(added) : Own(new, name) = Own(old, name)

\* C7: addScripts of lib/generator.js gives "E && N" for an existing script
\* (or "N && E" with prepend), adds a new name with its command, and leaves
\* every other script as it was.
C7_AddScripts ==
    lastOp.op = "addScripts" =>
        AddedAsDocumented(ScriptsOf(DocBefore), ScriptsOf(DocAfter),
                          lastOp.scripts, lastOp.prepend)

C7_Witness ==
    /\ lastOp.op = "addScripts"
    /\ lastOp.prepend
    /\ hasOwn(ScriptsOf(DocBefore).kv, "build")
    /\ Own(ScriptsOf(DocBefore), "build") = Str("lint")
    /\ lastOp.scripts = Obj(<<P("build", Str("tsc")), P("lint", Str("eslint"))>>)
    /\ Own(ScriptsOf(DocAfter), "build") = Str("tsc && lint")

\* C8: addScripts of the second implementation appends by default and
\* prepends only with prepend, leaving the same manifest as addScripts of
\* lib/generator.js on the same input.
C8_SecondAddScriptsAgrees ==
    lastOp.op = "secondAddScripts" =>
        /\ fs = addScripts(lastOp.before, lastOp.scripts, lastOp.prepend)
        /\ AddedAsDocumented(ScriptsOf(DocBefore), ScriptsOf(DocAfter),
                             lastOp.scripts, lastOp.prepend)

\* a sequence without its repeated elements, first occurrences kept
RECURSIVE FirstOccurrences(_)
FirstOccurrences(q) ==
    IF q = <<>> THEN <<>>
    ELSE LET front == FirstOccurrences(SubSeq(q, 1, Len(q) - 1))
             last == q[Len(q)]
         IN IF \E i \in 1..Len(front) : front[i] = last THEN front
            ELSE Append(front, last)

\* the order C9 states: the listed names that are present, then the rest
StatedOrder(old, names) ==
    SelectSeq(FirstOccurrences(names), LAMBDA n : hasOwn(old.kv, n))
    \o SelectSeq(KeySeq(old), LAMBDA k : \A i \in 1..Len(names) : names[i] # k)

\* C9: on a manifest with a scripts mapping, sortScripts is a pure
\* rearrangement: same names with the same commands, the listed names first
\* in the order of their first occurrence, the rest in their original order,
\* every other top-level key unchanged.
C9_SortScriptsRearranges ==
    (lastOp.op = "sortScripts" /\ hasOwn(DocBefore.kv, "scripts")) =>
        LET old == Own(DocBefore, "scripts")
            new == ScriptsOf(DocAfter)
        IN /\ ~lastOp.threw
           /\ Unordered(new) = Unordered(old)
           /\ KeySeq(new) = StatedOrder(old, lastOp.names)
           /\ KeySeq(DocAfter) = KeySeq(DocBefore)
           /\ \A k \in KeySet(DocBefore) \ {"scripts"} :
                 Own(DocAfter, k) = Own(DocBefore, k)

\* the same for calls that do not list a name twice
C9_NoRepeatedName ==
    (lastOp.op = "sortScripts" /\ hasOwn(DocBefore.kv, "scripts")
        /\ FirstOccurrences(lastOp.names) = lastOp.names) =>
        LET old == Own(DocBefore, "scripts")
            new == ScriptsOf(DocAfter)
        IN /\ ~lastOp.threw
           /\ Unordered(new) = Unordered(old)
           /\ KeySeq(new) = StatedOrder(old, lastOp.names)

\* C11: when the destination file does not exist, extendJson (and
\* extendPackage / extendTsConfig) reads it as {}: after the call the file
\* exists and holds exactly the caller's contents, keys in the caller's
\* order and no others.
C11_MissingFileGetsContents ==
    (DefaultMerge /\ lastOp.before[lastOp.path] = Missing) =>
        /\ DocAfter # Missing
        /\ DocAfter = lastOp.contents
        /\ OthersUntouched

C11_Witness ==
    /\ lastOp.op = "extendTsConfig"
    /\ lastOp.before["tsconfig.json"] = Missing
    /\ lastOp.contents = Obj(<<P("a", Obj(<<P("y", Num(5)),
                                            P("x", Arr(<<Num(2)>>))>>))>>)
    /\ fs["tsconfig.json"] = lastOp.contents

====
